---- MODULE Spec2Model ----
(***************************************************************************)
(* Round outcome engine of the crash game (src/src/game/Game.ts) and its   *)
(* entropy source (src/src/game/state.ts).                                 *)
(*                                                                         *)
(* Numbers.  Multipliers and money are JavaScript doubles in the source;   *)
(* here they are fixed-point integers in units of 1/Scale (1e-5), so       *)
(* currentMultiplier = 100000 is 1.00x and balance = 10000000 is $100.     *)
(* Game time (roundTime, endTimer, dt) is counted in units of 0.8 s, wall  *)
(* clock time (performance.now, setTimeout) in units of 200 ms.            *)
(***************************************************************************)
EXTENDS Integers, Sequences, FiniteSets, TLC

VARIABLES
    state,              \* Game.state
    balance,            \* Game.balance            (1/Scale dollars)
    currentMultiplier,  \* Game.currentMultiplier  (1/Scale)
    crashMultiplier,    \* Game.crashMultiplier    (1/Scale)
    roundTime,          \* Game.roundTime          (0.8 s)
    endTimer,           \* Game.endTimer           (0.8 s)
    cashoutLocked,      \* Game.cashoutLocked
    crashLocked,        \* Game.crashLocked
    lastTickStep,       \* Game.lastTickStep
    history,            \* Game.history, most recent first
    isQuantum,          \* RNG.isQuantum
    uiState,            \* UI.state, the UI's private copy of the state
    tooltip,            \* the "Balance too low" tooltip has been shown
    calls,              \* startRound invocations suspended at an await
    round,              \* number of accepted start requests so far
    startBalance,       \* the balance when the last start request was accepted
    lastOp,             \* the handler that ran last and its outcome
    useQrng,            \* SHOULD_USE_QRNG of this build
    env,                \* which values the entropy sources produce
    probe               \* argument/result of a pure function under test

vars == <<state, balance, currentMultiplier, crashMultiplier, roundTime,
          endTimer, cashoutLocked, crashLocked, lastTickStep, history,
          isQuantum, uiState, tooltip, calls, round, startBalance, lastOp,
          useQrng, env, probe>>

(***************************************************************************)
(* Program constants.                                                      *)
(***************************************************************************)
Scale == 100000

COST_TO_PLAY == 10

START_BALANCE == 100

MAX_MULTIPLIER == 25

\* HOUSE_EDGE = 0.06, in hundredths
HOUSE_EDGE == 6

MAX_UINT16 == 65535

\* TARGET_TIME = 20 s, in units of 0.8 s
TARGET_TIME == 25

\* TARGET_MULTIPLIER = 3.4, in units of 1/Scale
TARGET_MULTIPLIER == 340000

\* endTimer = 1.6 s, in units of 0.8 s
END_DELAY == 2

\* minChargeMs = 600 ms, in units of 200 ms
MIN_CHARGE == 3

\* history keeps at most 12 entries
HISTORY_MAX == 12

(***************************************************************************)
(* Bounds of the model.                                                    *)
(***************************************************************************)
\* accepted start requests in the "mixed" environment
MaxRounds == 1

\* accepted start requests in the "losing" environment
MaxLosingRounds == 11

\* accepted start requests in the "long" environment
MaxHistoryRounds == 13

\* largest frame time dt of an update tick, in units of 0.8 s (the ticker
\* delivers frame times well below the 1.6 s of the end timer)
MaxDt == 1

\* wall-clock time a suspended startRound is followed for, in units of 200 ms
MaxElapsed == 4

GameStates == {"IDLE", "FETCHING_RNG", "RUNNING", "CASHED_OUT", "CRASHED"}

Min(a, b) == IF a <= b THEN a ELSE b

(***************************************************************************)
(* Math.exp(GROWTH_K * t) with GROWTH_K = ln(3.4) / 20 s, tabulated for    *)
(* t = 0, 0.8 s, 1.6 s, ... and rounded to 1/Scale; entry TARGET_TIME + 1  *)
(* is TARGET_MULTIPLIER.  Beyond the table the value exceeds 25.           *)
(***************************************************************************)
ExpTable ==
    << 100000, 105017, 110285, 115818, 121629, 127731, 134139, 140869,
       147936, 155358, 163152, 171337, 179933, 188960, 198440, 208395,
       218850, 229829, 241360, 253468, 266185, 279539, 293563, 308291,
       323757, 340000, 357057, 374971, 393782, 413538, 434285, 456072,
       478953, 502982, 528216, 554716, 582545, 611771, 642463, 674694,
       708543, 744090, 781420, 820623, 861793, 905028, 950432, 998114,
       1048189, 1100775, 1156000, 1213995, 1274900, 1338860, 1406030,
       1476569, 1550646, 1628441, 1710138, 1795933, 1886033, 1980654,
       2080021, 2184373, 2293961, 2409047 >>

\* the growth curve without Math.min(MAX_MULTIPLIER, ...)
MultiplierNoCap(t) ==
    IF t + 1 <= Len(ExpTable) THEN ExpTable[t + 1]
    ELSE MAX_MULTIPLIER * Scale + (t + 1 - Len(ExpTable)) * Scale

\* Game.update: Math.min(MAX_MULTIPLIER, Math.exp(GROWTH_K * this.roundTime))
MultiplierAt(t) ==
    IF t + 1 > Len(ExpTable)
    THEN MAX_MULTIPLIER * Scale
    ELSE Min(MAX_MULTIPLIER * Scale, ExpTable[t + 1])

\* Math.floor(this.currentMultiplier * 10)
TickStep(m) == (m * 10) \div Scale

(***************************************************************************)
(* Entropy source (state.ts).                                              *)
(***************************************************************************)
\* getCrashMultiplier without the house edge
CrashNoEdge(r) ==
    LET d == r + 1
        n == 100 * (MAX_UINT16 + 1)
        k == Scale \div 100
    IN  IF n >= MAX_MULTIPLIER * 100 * d
        THEN MAX_MULTIPLIER * Scale
        ELSE (n \div d) * k + ((n % d) * k) \div d

\* RNG.getCrashMultiplier after the draw r:
\*   u = (r + 1) / 65536;  Math.min(MAX_MULTIPLIER, (1 - HOUSE_EDGE) / u)
\* (1 - HOUSE_EDGE) / u = (100 - 6) * 65536 / (100 * (r + 1)); the quotient is
\* taken by long division so that no intermediate value leaves 32 bits.
CrashOf(r) ==
    LET d == r + 1
        n == (100 - HOUSE_EDGE) * (MAX_UINT16 + 1)
        k == Scale \div 100
    IN  IF n >= MAX_MULTIPLIER * 100 * d
        THEN MAX_MULTIPLIER * Scale
        ELSE (n \div d) * k + ((n % d) * k) \div d

\* A number of the program: NaN, or a value given in tenths.
NaN == [nan |-> TRUE, tenths |-> 0]

Num(t) == [nan |-> FALSE, tenths |-> t]

\* rounding down instead of to the nearest integer
MathFloor(t) == t \div 10

\* Math.round of t tenths: the nearest integer, a tie going up
MathRound(t) == (t + 5) \div 10

\* clampUint16 without the wrap of values above MAX_UINT16
ClampNoWrap(value) == IF value < 0 THEN 0 ELSE value

\* clampUint16 on a parsed (finite, integral) value
ClampUint16(value) ==
    IF value < 0 THEN 0
    ELSE IF value > MAX_UINT16 THEN value % (MAX_UINT16 + 1)
    ELSE value

\* clampUint16 on any number: Math.round, then the test for NaN, then the
\* tests of the range
ClampNumber(x) == IF x.nan THEN 0 ELSE ClampUint16(MathRound(x.tenths))

\* The fields of one random-number record after decodeValue and parseInt:
\* << >> stands for a field that is absent, empty, undecodable or does not
\* parse to a finite number, <<n>> for a field that parses to the integer n.
FieldOrder == <<"decimal", "hexadecimal", "binary", "octal">>

FieldNames == {"decimal", "hexadecimal", "binary", "octal"}

RECURSIVE FirstParsed(_, _)
FirstParsed(entry, i) ==
    IF i > Len(FieldOrder) THEN << >>
    ELSE IF entry[FieldOrder[i]] # << >> THEN entry[FieldOrder[i]]
    ELSE FirstParsed(entry, i + 1)

\* readOutshiftNumber: the first record's fields in the order decimal,
\* hexadecimal, binary, octal; << >> (null) when there is no record or no
\* field parses
ReadOutshiftNumber(payload) ==
    IF Len(payload.random_numbers) = 0 THEN << >>
    ELSE FirstParsed(payload.random_numbers[1], 1)

\* getUint16 whose failure path returns 0 instead of the local value
GetUint16NoFallback(qrng, resp, fallback) ==
    IF ~qrng THEN [value |-> fallback, quantum |-> FALSE]
    ELSE IF resp.kind # "json" THEN [value |-> 0, quantum |-> FALSE]
    ELSE IF ReadOutshiftNumber(resp.payload) = << >>
         THEN [value |-> 0, quantum |-> FALSE]
    ELSE [value |-> ClampUint16(ReadOutshiftNumber(resp.payload)[1]),
          quantum |-> TRUE]

\* getUint16 that sets isQuantum before the payload is examined
GetUint16EarlyFlag(qrng, resp, fallback) ==
    IF ~qrng THEN [value |-> fallback, quantum |-> FALSE]
    ELSE IF resp.kind # "json" THEN [value |-> fallback, quantum |-> FALSE]
    ELSE IF ReadOutshiftNumber(resp.payload) = << >>
         THEN [value |-> fallback, quantum |-> TRUE]
    ELSE [value |-> ClampUint16(ReadOutshiftNumber(resp.payload)[1]),
          quantum |-> TRUE]

\* RNG.getUint16 for one outcome of the remote request and one value of the
\* local generator: the returned integer and the new value of isQuantum
GetUint16(qrng, resp, fallback) ==
    IF ~qrng THEN [value |-> fallback, quantum |-> FALSE]
    ELSE IF resp.kind # "json" THEN [value |-> fallback, quantum |-> FALSE]
    ELSE IF ReadOutshiftNumber(resp.payload) = << >>
         THEN [value |-> fallback, quantum |-> FALSE]
    ELSE [value |-> ClampUint16(ReadOutshiftNumber(resp.payload)[1]),
          quantum |-> TRUE]

(***************************************************************************)
(* The text of the response fields (state.ts, decodeValue and parseInt).   *)
(* A string is a sequence of one-character strings; << >> is the empty     *)
(* string, which decodeValue treats like an absent or null field.          *)
(***************************************************************************)
B64Alphabet ==
    << "A", "B", "C", "D", "E", "F", "G", "H", "I", "J", "K", "L", "M",
       "N", "O", "P", "Q", "R", "S", "T", "U", "V", "W", "X", "Y", "Z",
       "a", "b", "c", "d", "e", "f", "g", "h", "i", "j", "k", "l", "m",
       "n", "o", "p", "q", "r", "s", "t", "u", "v", "w", "x", "y", "z",
       "0", "1", "2", "3", "4", "5", "6", "7", "8", "9", "+", "/" >>

\* the characters of the bytes 32..126 (the quotation mark, the backslash
\* and the backtick are written as names)
Printable ==
    << " ", "!", "<quote>", "#", "$", "%", "&", "'", "(", ")", "*", "+", ",",
       "-", ".", "/", "0", "1", "2", "3", "4", "5", "6", "7", "8", "9",
       ":", ";", "<", "=", ">", "?", "@",
       "A", "B", "C", "D", "E", "F", "G", "H", "I", "J", "K", "L", "M",
       "N", "O", "P", "Q", "R", "S", "T", "U", "V", "W", "X", "Y", "Z",
       "[", "<backslash>", "]", "^", "_", "<backtick>",
       "a", "b", "c", "d", "e", "f", "g", "h", "i", "j", "k", "l", "m",
       "n", "o", "p", "q", "r", "s", "t", "u", "v", "w", "x", "y", "z",
       "{", "|", "}", "~" >>

DigitsLower ==
    << "0", "1", "2", "3", "4", "5", "6", "7", "8", "9",
       "a", "b", "c", "d", "e", "f", "g", "h", "i", "j", "k", "l", "m",
       "n", "o", "p", "q", "r", "s", "t", "u", "v", "w", "x", "y", "z" >>

DigitsUpper ==
    << "0", "1", "2", "3", "4", "5", "6", "7", "8", "9",
       "A", "B", "C", "D", "E", "F", "G", "H", "I", "J", "K", "L", "M",
       "N", "O", "P", "Q", "R", "S", "T", "U", "V", "W", "X", "Y", "Z" >>

\* position of ch in the sequence s, 0 when it does not occur
IndexOf(s, ch) ==
    IF \E i \in DOMAIN s : s[i] = ch
    THEN CHOOSE i \in DOMAIN s : s[i] = ch
    ELSE 0

\* the white space stripped by String.prototype.trim, parseInt and atob
WhiteSpace == {" ", "\t", "\n", "\r", "\f"}

\* the character of a decoded byte; a byte outside 32..126 that is no white
\* space is a character that is neither a digit nor white space
CharOfByte(b) ==
    IF b >= 32 /\ b <= 126 THEN Printable[b - 31]
    ELSE IF b = 9 THEN "\t"
    ELSE IF b = 10 THEN "\n"
    ELSE IF b = 12 THEN "\f"
    ELSE IF b = 13 THEN "\r"
    ELSE "<byte>"

RECURSIVE TrimLeft(_)
TrimLeft(s) ==
    IF Len(s) = 0 THEN s
    ELSE IF s[1] \in WhiteSpace THEN TrimLeft(Tail(s))
    ELSE s

RECURSIVE TrimRight(_)
TrimRight(s) ==
    IF Len(s) = 0 THEN s
    ELSE IF s[Len(s)] \in WhiteSpace THEN TrimRight(SubSeq(s, 1, Len(s) - 1))
    ELSE s

\* String.prototype.trim
Trim(s) == TrimRight(TrimLeft(s))

\* the bytes of a sequence of 6-bit values (whose length is not 1 modulo 4)
RECURSIVE DecodeSextets(_)
DecodeSextets(v) ==
    IF Len(v) = 0 THEN << >>
    ELSE IF Len(v) >= 4
    THEN LET n == v[1] * 262144 + v[2] * 4096 + v[3] * 64 + v[4]
         IN  << n \div 65536, (n \div 256) % 256, n % 256 >>
             \o DecodeSextets(SubSeq(v, 5, Len(v)))
    ELSE IF Len(v) = 3
    THEN LET n == v[1] * 4096 + v[2] * 64 + v[3]
         IN  << n \div 1024, (n \div 4) % 256 >>
    ELSE LET n == v[1] * 64 + v[2]
         IN  << n \div 16 >>

\* atob: white space is removed, up to two "=" of padding are removed from
\* a text whose length is a multiple of 4, and a text of length 1 modulo 4
\* or with a character outside the alphabet makes atob throw (ok = FALSE)
Atob(s) ==
    LET t == SelectSeq(s, LAMBDA ch : ch \notin WhiteSpace)
        n == Len(t)
        pad == IF n % 4 = 0 /\ n > 0 /\ t[n] = "="
               THEN (IF t[n - 1] = "=" THEN 2 ELSE 1)
               ELSE 0
        u == SubSeq(t, 1, n - pad)
    IN  IF Len(u) % 4 = 1 \/ \E i \in DOMAIN u : IndexOf(B64Alphabet, u[i]) = 0
        THEN [ok |-> FALSE, text |-> << >>]
        ELSE LET bytes == DecodeSextets([i \in DOMAIN u |->
                                            IndexOf(B64Alphabet, u[i]) - 1])
             IN  [ok |-> TRUE,
                  text |-> [i \in DOMAIN bytes |-> CharOfByte(bytes[i])]]

\* decodeValue that only trims, whatever the encoding
DecodeRawOnly(value, encoding) ==
    IF value = << >> THEN [ok |-> FALSE, text |-> << >>]
    ELSE [ok |-> TRUE, text |-> Trim(value)]

\* decodeValue: null (ok = FALSE) for an absent, null or empty field and for
\* a field atob rejects
DecodeValue(value, encoding) ==
    IF value = << >> THEN [ok |-> FALSE, text |-> << >>]
    ELSE IF encoding = "raw" THEN [ok |-> TRUE, text |-> Trim(value)]
    ELSE LET d == Atob(value)
         IN  IF d.ok THEN [ok |-> TRUE, text |-> Trim(d.text)] ELSE d

\* the value of a digit character, 36 for any other character
DigitValue(ch) ==
    IF IndexOf(DigitsLower, ch) # 0 THEN IndexOf(DigitsLower, ch) - 1
    ELSE IF IndexOf(DigitsUpper, ch) # 0 THEN IndexOf(DigitsUpper, ch) - 1
    ELSE 36

\* the number of leading characters of s that are digits of the radix
RECURSIVE DigitPrefix(_, _)
DigitPrefix(s, radix) ==
    IF Len(s) = 0 \/ DigitValue(s[1]) >= radix THEN 0
    ELSE 1 + DigitPrefix(Tail(s), radix)

RECURSIVE DigitsValue(_, _, _)
DigitsValue(s, n, radix) ==
    IF n = 0 THEN 0
    ELSE DigitsValue(s, n - 1, radix) * radix + DigitValue(s[n])

\* parseInt(text, radix) for the radices 10, 16, 2 and 8: << >> is NaN
ParseInt(text, radix) ==
    LET s1 == TrimLeft(text)
        neg == Len(s1) > 0 /\ s1[1] = "-"
        s2 == IF Len(s1) > 0 /\ s1[1] \in {"-", "+"} THEN Tail(s1) ELSE s1
        s3 == IF radix = 16 /\ Len(s2) >= 2 /\ s2[1] = "0" /\ s2[2] \in {"x", "X"}
              THEN SubSeq(s2, 3, Len(s2)) ELSE s2
        n == DigitPrefix(s3, radix)
    IN  IF n = 0 THEN << >>
        ELSE << (IF neg THEN -1 ELSE 1) * DigitsValue(s3, n, radix) >>

Radix == [decimal |-> 10, hexadecimal |-> 16, binary |-> 2, octal |-> 8]

\* payload.encoding ?? 'base64'
EncodingOf(encoding) == IF encoding = "missing" THEN "base64" ELSE encoding

\* one field of a record: decodeValue, parseInt and Number.isFinite
ParseField(value, radix, encoding) ==
    LET d == DecodeValue(value, encoding)
    IN  IF d.ok THEN ParseInt(d.text, radix) ELSE << >>

\* readOutshiftNumber on the text of a payload
ReadOutshiftText(payload) ==
    IF Len(payload.random_numbers) = 0 THEN << >>
    ELSE ReadOutshiftNumber(
            [random_numbers |->
                << [f \in FieldNames |->
                      ParseField(payload.random_numbers[1][f], Radix[f],
                                 EncodingOf(payload.encoding))] >>])

(***************************************************************************)
(* What the environment can produce.  A remote request ends in a network   *)
(* error, a non-success status, a body that is not JSON, or a JSON payload.*)
(***************************************************************************)
Failures == {[kind |-> "neterror"], [kind |-> "status"], [kind |-> "notjson"]}

Entries(V) == [FieldNames -> {<< >>} \cup {<<v>> : v \in V}]

Payloads(V) ==
    {[random_numbers |-> << >>]} \cup
    {[random_numbers |-> <<e>>] : e \in Entries(V)}

Responses(V) == Failures \cup {[kind |-> "json", payload |-> p] : p \in Payloads(V)}

\* values of crypto.getRandomValues and parsed remote values per environment:
\* "mixed" covers the cap (0), a mid-range threshold (30801 gives 1.99x), the
\* last draw above 1.00x (61602), the first below (61603) and the largest;
\* "losing" only produces the largest draw, whose threshold is 0.94x;
\* "offline" is a transport that fails on every call (no response carries a
\* parsable value) beside a local generator giving 1.99x or 1.00001x.
FallbackValues(e) ==
    IF e = "mixed" THEN {30801, 61602, MAX_UINT16}
    ELSE IF e = "offline" THEN {30801, 61602}
    ELSE IF e = "long" THEN {61603, MAX_UINT16}
    ELSE {MAX_UINT16}

\* the values of the local generator for the n-th accepted start request;
\* "long" is a run of many short rounds over a failing transport in which
\* the generator gives the largest draw in odd rounds and 61603 in even
\* ones, so that neighbouring history entries differ
LocalDraws(e, n) ==
    IF e = "long" THEN {IF n % 2 = 1 THEN MAX_UINT16 ELSE 61603}
    ELSE FallbackValues(e)

RemoteValues(e) ==
    IF e = "mixed" THEN {-7, 61603 + MAX_UINT16 + 1}
    ELSE IF e \in {"offline", "long"} THEN {}
    ELSE {2 * MAX_UINT16 + 1}

RoundCap(e) ==
    IF e = "losing" THEN MaxLosingRounds
    ELSE IF e = "long" THEN MaxHistoryRounds
    ELSE MaxRounds

(***************************************************************************)
(* Round engine (Game.ts).  The handlers are functions of the record g of  *)
(* the engine's fields.                                                    *)
(***************************************************************************)
Fields ==
    [state |-> state, balance |-> balance,
     currentMultiplier |-> currentMultiplier,
     crashMultiplier |-> crashMultiplier, roundTime |-> roundTime,
     endTimer |-> endTimer, cashoutLocked |-> cashoutLocked,
     crashLocked |-> crashLocked, lastTickStep |-> lastTickStep,
     history |-> history, uiState |-> uiState, tooltip |-> tooltip]

Apply(g) ==
    /\ state' = g.state
    /\ balance' = g.balance
    /\ currentMultiplier' = g.currentMultiplier
    /\ crashMultiplier' = g.crashMultiplier
    /\ roundTime' = g.roundTime
    /\ endTimer' = g.endTimer
    /\ cashoutLocked' = g.cashoutLocked
    /\ crashLocked' = g.crashLocked
    /\ lastTickStep' = g.lastTickStep
    /\ history' = g.history
    /\ uiState' = g.uiState
    /\ tooltip' = g.tooltip

\* recordHistory adding the entry at the end and dropping the first
RecordHistoryAppend(g, value, highlight) ==
    LET entry == [value |-> Min(MAX_MULTIPLIER * Scale, value),
                  highlight |-> highlight]
        all == g.history \o <<entry>>
    IN  [g EXCEPT !.history =
            IF Len(all) > HISTORY_MAX THEN Tail(all) ELSE all]

\* Game.recordHistory
RecordHistory(g, value, highlight) ==
    LET entry == [value |-> Min(MAX_MULTIPLIER * Scale, value),
                  highlight |-> highlight]
        all == <<entry>> \o g.history
    IN  [g EXCEPT !.history =
            IF Len(all) > HISTORY_MAX THEN SubSeq(all, 1, HISTORY_MAX) ELSE all]

\* cashOut guarded by its lock flag only
CashOutAcceptsLockOnly(g) == ~g.cashoutLocked

\* the guard of Game.cashOut
CashOutAccepts(g) == g.state = "RUNNING" /\ ~g.cashoutLocked

\* cashOut paying the winnings without the wager
CashOutProfitOnly(g) ==
    IF ~CashOutAccepts(g) THEN g
    ELSE
      LET payout == COST_TO_PLAY * (g.currentMultiplier - 1 * Scale)
          g1 == [g EXCEPT !.cashoutLocked = TRUE,
                          !.balance = g.balance + payout,
                          !.state = "CASHED_OUT",
                          !.endTimer = END_DELAY,
                          !.uiState = "CASHED_OUT"]
      IN  RecordHistory(g1, g1.crashMultiplier, "none")

\* cashOut paying back the wager whatever the multiplier
CashOutFlat(g) ==
    IF ~CashOutAccepts(g) THEN g
    ELSE
      LET g1 == [g EXCEPT !.cashoutLocked = TRUE,
                          !.balance = g.balance + COST_TO_PLAY * Scale,
                          !.state = "CASHED_OUT",
                          !.endTimer = END_DELAY,
                          !.uiState = "CASHED_OUT"]
      IN  RecordHistory(g1, g1.crashMultiplier, "none")

\* Game.cashOut
CashOut(g) ==
    IF ~CashOutAccepts(g) THEN g
    ELSE
      LET payout == COST_TO_PLAY * g.currentMultiplier
          g1 == [g EXCEPT !.cashoutLocked = TRUE,
                          !.balance = g.balance + payout,
                          !.state = "CASHED_OUT",
                          !.endTimer = END_DELAY,
                          !.uiState = "CASHED_OUT"]
          highlight ==
              IF g.currentMultiplier >= MAX_MULTIPLIER * Scale - Scale \div 100
              THEN "jackpot"
              ELSE IF g.currentMultiplier >= 10 * Scale THEN "big"
              ELSE "none"
      IN  RecordHistory(g1, g1.crashMultiplier, highlight)

\* the guard of Game.crash
CrashAccepts(g) == g.state = "RUNNING" /\ ~g.crashLocked

\* crash overwriting the threshold with the multiplier reached
CrashStoresPoint(g) ==
    IF ~CrashAccepts(g) THEN g
    ELSE
      LET g1 == [g EXCEPT !.crashLocked = TRUE,
                          !.state = "CRASHED",
                          !.endTimer = END_DELAY,
                          !.crashMultiplier = g.currentMultiplier,
                          !.uiState = "CRASHED"]
      IN  RecordHistory(g1, g1.crashMultiplier, "none")

\* crash giving the wager back
CrashRefund(g) ==
    IF ~CrashAccepts(g) THEN g
    ELSE
      LET g1 == [g EXCEPT !.crashLocked = TRUE,
                          !.balance = g.balance + COST_TO_PLAY * Scale,
                          !.state = "CRASHED",
                          !.endTimer = END_DELAY,
                          !.uiState = "CRASHED"]
      IN  RecordHistory(g1, g1.crashMultiplier, "none")

\* Game.crash
Crash(g) ==
    IF ~CrashAccepts(g) THEN g
    ELSE
      LET g1 == [g EXCEPT !.crashLocked = TRUE,
                          !.state = "CRASHED",
                          !.endTimer = END_DELAY,
                          !.uiState = "CRASHED"]
      IN  RecordHistory(g1, g1.crashMultiplier, "none")

\* resetRound without the call of ui.setState
ResetRoundSilent(g) ==
    [g EXCEPT !.state = "IDLE",
              !.currentMultiplier = 1 * Scale,
              !.roundTime = 0,
              !.endTimer = 0,
              !.crashMultiplier = MAX_MULTIPLIER * Scale,
              !.cashoutLocked = FALSE,
              !.crashLocked = FALSE,
              !.lastTickStep = TickStep(1 * Scale)]

\* resetRound that leaves the threshold of the finished round in place
ResetRoundKeepsThreshold(g) ==
    [g EXCEPT !.state = "IDLE",
              !.currentMultiplier = 1 * Scale,
              !.roundTime = 0,
              !.endTimer = 0,
              !.cashoutLocked = FALSE,
              !.crashLocked = FALSE,
              !.lastTickStep = TickStep(1 * Scale),
              !.uiState = "IDLE"]

\* resetRound that leaves the lock flags set
ResetRoundKeepsLocks(g) ==
    [g EXCEPT !.state = "IDLE",
              !.currentMultiplier = 1 * Scale,
              !.roundTime = 0,
              !.endTimer = 0,
              !.crashMultiplier = MAX_MULTIPLIER * Scale,
              !.lastTickStep = TickStep(1 * Scale),
              !.uiState = "IDLE"]

\* Game.resetRound
ResetRound(g) ==
    [g EXCEPT !.state = "IDLE",
              !.currentMultiplier = 1 * Scale,
              !.roundTime = 0,
              !.endTimer = 0,
              !.crashMultiplier = MAX_MULTIPLIER * Scale,
              !.cashoutLocked = FALSE,
              !.crashLocked = FALSE,
              !.lastTickStep = TickStep(1 * Scale),
              !.uiState = "IDLE"]

\* update that advances the round while the draw is still in flight too
UpdateRunningEager(g, dt) ==
    IF g.state \notin {"RUNNING", "FETCHING_RNG"} THEN g
    ELSE
      LET t == g.roundTime + dt
          m == MultiplierAt(t)
          g1 == [g EXCEPT !.roundTime = t,
                          !.currentMultiplier = m,
                          !.lastTickStep =
                              IF TickStep(m) > g.lastTickStep
                              THEN TickStep(m) ELSE g.lastTickStep]
      IN  IF g1.currentMultiplier >= g1.crashMultiplier THEN Crash(g1) ELSE g1

\* the RUNNING branch of update without the accumulation of roundTime
UpdateRunningFrozen(g, dt) ==
    IF g.state # "RUNNING" THEN g
    ELSE IF g.currentMultiplier >= g.crashMultiplier THEN Crash(g) ELSE g

\* Game.update, first part: the round advances while RUNNING
UpdateRunning(g, dt) ==
    IF g.state # "RUNNING" THEN g
    ELSE
      LET t == g.roundTime + dt
          m == MultiplierAt(t)
          g1 == [g EXCEPT !.roundTime = t,
                          !.currentMultiplier = m,
                          !.lastTickStep =
                              IF TickStep(m) > g.lastTickStep
                              THEN TickStep(m) ELSE g.lastTickStep]
      IN  IF g1.currentMultiplier >= g1.crashMultiplier THEN Crash(g1) ELSE g1

\* update without the countdown of the end timer
UpdateEndedNoCountdown(g, dt) == g

\* the end timer counted down without the test of the state
UpdateEndedAnyState(g, dt) ==
    LET g1 == [g EXCEPT !.endTimer = g.endTimer - dt]
    IN  IF g1.endTimer <= 0 THEN ResetRound(g1) ELSE g1

\* Game.update, second part: the end timer of a settled round
UpdateEnded(g, dt) ==
    IF g.state \notin {"CASHED_OUT", "CRASHED"} THEN g
    ELSE
      LET g1 == [g EXCEPT !.endTimer = g.endTimer - dt]
      IN  IF g1.endTimer <= 0 THEN ResetRound(g1) ELSE g1

\* Game.update (the fields of the round engine)
Update(g, dt) == UpdateEnded(UpdateRunning(g, dt), dt)

\* startRound that never waits for the rest of the minimum charge time
ChargeNeverWaits(chargeElapsed) == FALSE

\* startRound after the draw: chargeElapsed is the wall-clock time the draw
\* took; when it is below the minimum charge time a timer is armed for the
\* rest
ChargeWaits(chargeElapsed) == chargeElapsed < MIN_CHARGE

ChargeDelay(chargeElapsed) == MIN_CHARGE - chargeElapsed

\* startRound without the balance check
StartAcceptsAnyBalance(g) == g.state = "IDLE"

\* startRound without the IDLE check
StartAcceptsAnyState(g) == g.balance >= COST_TO_PLAY * Scale

\* the guards of Game.startRound
StartAccepts(g) == g.state = "IDLE" /\ g.balance >= COST_TO_PLAY * Scale

\* Game.startRound up to its first await
StartRound(g) ==
    IF ~StartAccepts(g)
    THEN (IF g.state # "IDLE" THEN g ELSE [g EXCEPT !.tooltip = TRUE])
    ELSE [g EXCEPT !.state = "FETCHING_RNG",
                   !.uiState = "FETCHING_RNG",
                   !.balance = g.balance - COST_TO_PLAY * Scale,
                   !.roundTime = 0,
                   !.currentMultiplier = 1 * Scale,
                   !.crashMultiplier = MAX_MULTIPLIER * Scale,
                   !.cashoutLocked = FALSE,
                   !.crashLocked = FALSE,
                   !.lastTickStep = TickStep(1 * Scale)]

\* Game.startRound after its awaits: the drawn threshold is applied unless
\* the engine has left FETCHING_RNG
Continue(g, crash) ==
    IF g.state # "FETCHING_RNG" THEN g
    ELSE [g EXCEPT !.crashMultiplier = crash,
                   !.state = "RUNNING",
                   !.uiState = "RUNNING"]

(***************************************************************************)
(* The state after construction (Game fields, Game.ts lines 225-232, 261). *)
(***************************************************************************)
NoProbe == [fn |-> "none", arg |-> << >>, out |-> << >>]

InitGame ==
    /\ state = "IDLE"
    /\ balance = START_BALANCE * Scale
    /\ currentMultiplier = 1 * Scale
    /\ crashMultiplier = MAX_MULTIPLIER * Scale
    /\ roundTime = 0
    /\ endTimer = 0
    /\ cashoutLocked = FALSE
    /\ crashLocked = FALSE
    /\ lastTickStep = 10
    /\ history = << >>
    /\ uiState = "IDLE"
    /\ tooltip = FALSE
    /\ calls = {}
    /\ round = 0
    /\ startBalance = START_BALANCE * Scale
    /\ lastOp = [op |-> "init", res |-> "none"]

Init ==
    /\ InitGame
    /\ isQuantum = FALSE
    /\ useQrng \in BOOLEAN
    /\ env \in {"mixed", "losing", "offline"}
    /\ probe = NoProbe

\* the click handler of the play button: the handler it calls for the UI's
\* copy s of the state
ClickRoute(s) ==
    IF s = "RUNNING" THEN "cashOut"
    ELSE IF s = "IDLE" THEN "startRound"
    ELSE "none"

(***************************************************************************)
(* Event-loop tasks.                                                       *)
(***************************************************************************)
\* A start request: startRound() runs up to its first await.  An accepted
\* request issues the draw: with SHOULD_USE_QRNG the fetch is left in flight,
\* without it getUint16 returns the local value at once and startRound is
\* left waiting for the timer of the minimum charge time.
StartRequest ==
    LET g == Fields
        ok == StartAccepts(g)
        g1 == StartRound(g)
    IN  /\ ok => round < RoundCap(env)
        /\ lastOp' = [op |-> "startRound",
                      res |-> IF ok THEN "accepted"
                              ELSE IF g.state = "IDLE" THEN "low" ELSE "ignored"]
        /\ round' = IF ok THEN round + 1 ELSE round
        /\ startBalance' = IF ok THEN balance ELSE startBalance
        /\ IF ~ok THEN Apply(g1) /\ UNCHANGED <<calls, isQuantum>>
           ELSE IF useQrng
           THEN /\ Apply(g1)
                /\ calls' = calls \cup {[epoch |-> round + 1, phase |-> "fetch",
                                         crash |-> 0, elapsed |-> 0, due |-> 0]}
                /\ UNCHANGED isQuantum
           ELSE \E fb \in LocalDraws(env, round + 1) :
                  LET r == GetUint16(FALSE, [kind |-> "neterror"], fb)
                      crash == CrashOf(r.value)
                  IN  /\ isQuantum' = r.quantum
                      /\ IF ChargeWaits(0)
                         THEN /\ Apply(g1)
                              /\ calls' = calls \cup
                                    {[epoch |-> round + 1, phase |-> "timer",
                                      crash |-> crash, elapsed |-> 0,
                                      due |-> ChargeDelay(0)]}
                         ELSE /\ Apply(Continue(g1, crash))
                              /\ UNCHANGED calls
        /\ UNCHANGED <<useQrng, env, probe>>

\* The remote request of a suspended startRound completes: getUint16 and
\* getCrashMultiplier return; startRound arms the timer for the rest of the
\* minimum charge time or, when that time has passed, continues at once.
FetchDone ==
    \E c \in calls :
      /\ c.phase = "fetch"
      /\ \E resp \in Responses(RemoteValues(env)), fb \in LocalDraws(env, c.epoch) :
           LET r == GetUint16(TRUE, resp, fb)
               crash == CrashOf(r.value)
           IN  /\ isQuantum' = r.quantum
               /\ IF ChargeWaits(c.elapsed)
                  THEN /\ calls' = (calls \ {c}) \cup
                              {[c EXCEPT !.phase = "timer", !.crash = crash,
                                         !.due = c.elapsed + ChargeDelay(c.elapsed)]}
                       /\ Apply(Fields)
                       /\ lastOp' = [op |-> "fetchDone", res |-> "wait"]
                  ELSE /\ calls' = calls \ {c}
                       /\ Apply(Continue(Fields, crash))
                       /\ lastOp' = [op |-> "continue",
                                     res |-> IF state = "FETCHING_RNG"
                                             THEN "applied" ELSE "stale"]
      /\ UNCHANGED <<round, startBalance, useQrng, env, probe>>

\* The timer of the minimum charge time fires: startRound continues.
TimerFire ==
    \E c \in calls :
      /\ c.phase = "timer"
      /\ c.elapsed >= c.due
      /\ calls' = calls \ {c}
      /\ Apply(Continue(Fields, c.crash))
      /\ lastOp' = [op |-> "continue",
                    res |-> IF state = "FETCHING_RNG" THEN "applied" ELSE "stale"]
      /\ UNCHANGED <<isQuantum, round, startBalance, useQrng, env, probe>>

\* 200 ms of wall-clock time pass while a startRound is suspended.
Tock ==
    /\ \E c \in calls : c.elapsed < MaxElapsed
    /\ calls' = {[c EXCEPT !.elapsed = Min(MaxElapsed, c.elapsed + 1)] : c \in calls}
    /\ UNCHANGED <<state, balance, currentMultiplier, crashMultiplier,
                   roundTime, endTimer, cashoutLocked, crashLocked,
                   lastTickStep, history, isQuantum, uiState, tooltip, round,
                   startBalance, lastOp, useQrng, env, probe>>

\* A cash-out request: cashOut() runs.
CashOutRequest ==
    /\ Apply(CashOut(Fields))
    /\ lastOp' = [op |-> "cashOut",
                  res |-> IF CashOutAccepts(Fields) THEN "paid" ELSE "ignored"]
    /\ UNCHANGED <<isQuantum, calls, round, startBalance, useQrng, env, probe>>

\* A frame of the ticker: update(dt) runs.
Tick ==
    \E dt \in 1..MaxDt :
      LET g == Fields
          g1 == UpdateRunning(g, dt)
          g2 == UpdateEnded(g1, dt)
      IN  /\ Apply(Update(g, dt))
          /\ lastOp' = [op |-> "update",
                        res |-> IF g1.state # g.state
                                THEN (IF g2.state # g1.state
                                      THEN "crash+reset" ELSE "crash")
                                ELSE IF g2.state # g1.state THEN "reset"
                                ELSE IF g.state = "RUNNING" THEN "advance"
                                ELSE IF g.state \in {"CASHED_OUT", "CRASHED"}
                                THEN "countdown" ELSE "idle"]
          /\ UNCHANGED <<isQuantum, calls, round, startBalance, useQrng, env, probe>>

\* The timer of UI.showTooltip hides the tooltip.
TooltipHide ==
    /\ tooltip
    /\ tooltip' = FALSE
    /\ UNCHANGED <<state, balance, currentMultiplier, crashMultiplier,
                   roundTime, endTimer, cashoutLocked, crashLocked,
                   lastTickStep, history, isQuantum, uiState, calls, round,
                   startBalance, lastOp, useQrng, env, probe>>

Next ==
    \/ StartRequest
    \/ FetchDone
    \/ TimerFire
    \/ Tock
    \/ CashOutRequest
    \/ Tick
    \/ TooltipHide

Spec == Init /\ [][Next]_vars

TypeOK ==
    /\ state \in GameStates
    /\ uiState \in GameStates
    /\ balance \in Nat
    /\ currentMultiplier \in Nat
    /\ crashMultiplier \in Nat
    /\ roundTime \in Nat
    /\ endTimer \in Int
    /\ cashoutLocked \in BOOLEAN
    /\ crashLocked \in BOOLEAN
    /\ isQuantum \in BOOLEAN
    /\ tooltip \in BOOLEAN
    /\ round \in Nat
    /\ Len(history) <= HISTORY_MAX
    /\ ExpTable[TARGET_TIME + 1] = TARGET_MULTIPLIER

(***************************************************************************)
(* The functions of the entropy source on their own: Init draws the        *)
(* argument, the action applies the function.                              *)
(***************************************************************************)
\* parsed remote values around the ends of the 16-bit range
ProbeValues == {-65536, -1, MAX_UINT16, MAX_UINT16 + 1, 2 * MAX_UINT16 + 1}

ProbeFallbacks == {0, 30801, MAX_UINT16}

\* field texts: absent, "42", " 10\n", "MTA=" (base64 of "10"), "NDI="
\* (base64 of "42"), "0x1F", "A", "-7", "ICA=" (base64 of two spaces)
TextValues ==
    { << >>,
      <<"4", "2">>,
      <<" ", "1", "0", "\n">>,
      <<"M", "T", "A", "=">>,
      <<"N", "D", "I", "=">>,
      <<"0", "x", "1", "F">>,
      <<"A">>,
      <<"-", "7">>,
      <<"I", "C", "A", "=">> }

\* payloads with the envelope encoding raw, base64 or none and with no
\* record or one record
TextPayloads ==
    [encoding : {"raw", "base64", "missing"},
     random_numbers : {<< >>} \cup {<<e>> : e \in [FieldNames -> TextValues]}]

InitProbe ==
    /\ InitGame
    /\ useQrng = TRUE
    /\ env = "mixed"
    /\ probe \in
         {[fn |-> "getCrashMultiplier", arg |-> r, out |-> << >>] :
             r \in 0..MAX_UINT16}
         \cup
         {[fn |-> "getUint16", arg |-> a, out |-> << >>] :
             a \in [qrng : BOOLEAN, resp : Responses(ProbeValues),
                    fallback : ProbeFallbacks]}
    \* getUint16 is probed with either value an earlier draw can have left
    /\ isQuantum \in IF probe.fn = "getUint16" THEN BOOLEAN ELSE {FALSE}

\* getCrashMultiplier once getUint16 has returned probe.arg
ProbeCrash ==
    /\ probe.fn = "getCrashMultiplier"
    /\ probe.out = << >>
    /\ probe' = [probe EXCEPT !.out = <<CrashOf(probe.arg)>>]
    /\ UNCHANGED <<state, balance, currentMultiplier, crashMultiplier,
                   roundTime, endTimer, cashoutLocked, crashLocked,
                   lastTickStep, history, isQuantum, uiState, tooltip, calls,
                   round, startBalance, lastOp, useQrng, env>>

\* getUint16 for the remote outcome and the local value of probe.arg
ProbeUint16 ==
    /\ probe.fn = "getUint16"
    /\ probe.out = << >>
    /\ LET r == GetUint16(probe.arg.qrng, probe.arg.resp, probe.arg.fallback)
       IN  /\ probe' = [probe EXCEPT !.out = <<r.value>>]
           /\ isQuantum' = r.quantum
    /\ UNCHANGED <<state, balance, currentMultiplier, crashMultiplier,
                   roundTime, endTimer, cashoutLocked, crashLocked,
                   lastTickStep, history, uiState, tooltip, calls, round,
                   startBalance, lastOp, useQrng, env>>

\* readOutshiftNumber on the payload of probe.arg
ProbeRead ==
    /\ probe.fn = "readOutshiftNumber"
    /\ probe.out = << >>
    /\ probe' = [probe EXCEPT !.out = <<ReadOutshiftText(probe.arg)>>]
    /\ UNCHANGED <<state, balance, currentMultiplier, crashMultiplier,
                   roundTime, endTimer, cashoutLocked, crashLocked,
                   lastTickStep, history, isQuantum, uiState, tooltip, calls,
                   round, startBalance, lastOp, useQrng, env>>

NextProbe == ProbeCrash \/ ProbeUint16

SpecProbe == InitProbe /\ [][NextProbe]_vars

\* numbers around zero, around MAX_UINT16 and around twice the range, in
\* tenths, and NaN
ClampInputs ==
    {NaN} \cup
    {Num(t) : t \in (-30..30) \cup (655330..655400) \cup (1310700..1310730)
                      \cup {-655360, 327675}}

\* clampUint16 on the number of probe.arg
ProbeClamp ==
    /\ probe.fn = "clampUint16"
    /\ probe.out = << >>
    /\ probe' = [probe EXCEPT !.out = <<ClampNumber(probe.arg)>>]
    /\ UNCHANGED <<state, balance, currentMultiplier, crashMultiplier,
                   roundTime, endTimer, cashoutLocked, crashLocked,
                   lastTickStep, history, isQuantum, uiState, tooltip, calls,
                   round, startBalance, lastOp, useQrng, env>>

\* the functions that read the text of a response
InitParse ==
    /\ InitGame
    /\ isQuantum = FALSE
    /\ useQrng = TRUE
    /\ env = "mixed"
    /\ probe \in
         {[fn |-> "readOutshiftNumber", arg |-> p, out |-> << >>] :
             p \in TextPayloads}
         \cup
         {[fn |-> "clampUint16", arg |-> x, out |-> << >>] : x \in ClampInputs}

NextParse == ProbeRead \/ ProbeClamp

SpecParse == InitParse /\ [][NextParse]_vars

(***************************************************************************)
(* Properties.                                                             *)
(***************************************************************************)
Settled == {"CASHED_OUT", "CRASHED"}

\* the values a draw can return in environment e
DrawResults(e) == FallbackValues(e) \cup {ClampUint16(v) : v \in RemoteValues(e)}

\* C1: settlement is exactly-once.  A settlement (entering CASHED_OUT or
\* CRASHED, a new history entry, a credit) only happens in a step that leaves
\* RUNNING, RUNNING is only entered from FETCHING_RNG, and while the state is
\* CASHED_OUT or CRASHED no step credits the balance, records history,
\* restarts the end timer or changes the state other than back to IDLE.
C1_ExactlyOnce ==
    [][ /\ state \in Settled =>
              /\ balance' = balance
              /\ history' = history
              /\ state' \in {state, "IDLE"}
              /\ endTimer' <= endTimer
        /\ (state' \in Settled /\ state' # state) => state = "RUNNING"
        /\ history' # history => (state = "RUNNING" /\ state' # "RUNNING")
        /\ balance' > balance => (state = "RUNNING" /\ state' = "CASHED_OUT")
        /\ (state' = "RUNNING" /\ state # "RUNNING") => state = "FETCHING_RNG"
      ]_vars

\* C1 witness: a cash-out request was processed after the crash settlement of
\* the round and was ignored
C1_Witness ==
    /\ state = "CRASHED"
    /\ lastOp = [op |-> "cashOut", res |-> "ignored"]

\* C2: crash wins ties.  A step taken while the state is RUNNING and
\* currentMultiplier >= crashMultiplier never enters CASHED_OUT and never
\* credits the balance.
C2_CrashWinsTies ==
    [][ (state = "RUNNING" /\ currentMultiplier >= crashMultiplier) =>
            (state' # "CASHED_OUT" /\ balance' <= balance) ]_vars

\* C3: for every drawn integer the crash multiplier returned by
\* getCrashMultiplier is greater than 1 and at most MAX_MULTIPLIER.
C3_CrashInRange ==
    (probe.fn = "getCrashMultiplier" /\ probe.out # << >>) =>
        (probe.out[1] > 1 * Scale /\ probe.out[1] <= MAX_MULTIPLIER * Scale)

\* C4: a settled round that started at balance b stands at
\* b - COST_TO_PLAY + COST_TO_PLAY * currentMultiplier after a cash-out and
\* at b - COST_TO_PLAY after a crash; while RUNNING currentMultiplier is the
\* value the last update tick computed from roundTime.
C4_Payout ==
    /\ state = "CASHED_OUT" =>
          balance = startBalance - COST_TO_PLAY * Scale
                      + COST_TO_PLAY * currentMultiplier
    /\ state = "CRASHED" => balance = startBalance - COST_TO_PLAY * Scale
    /\ state = "RUNNING" => currentMultiplier = MultiplierAt(roundTime)

\* C4 witness: a round started at $100 was cashed out at 1.9844x and the
\* balance is $90 + $19.844
C4_Witness ==
    /\ state = "CASHED_OUT"
    /\ lastOp = [op |-> "cashOut", res |-> "paid"]
    /\ startBalance = 100 * Scale
    /\ currentMultiplier = 198440
    /\ balance = 90 * Scale + 1984400

\* C5: the balance changes only in two kinds of step: an accepted start
\* request (IDLE to FETCHING_RNG) debits COST_TO_PLAY, once, while the
\* threshold is still the default, and a successful cashOut (RUNNING to
\* CASHED_OUT) credits COST_TO_PLAY * currentMultiplier.
C5_BalanceChanges ==
    [][ /\ balance' # balance =>
              \/ /\ state = "IDLE" /\ state' = "FETCHING_RNG"
                 /\ balance' = balance - COST_TO_PLAY * Scale
              \/ /\ state = "RUNNING" /\ state' = "CASHED_OUT"
                 /\ balance' = balance + COST_TO_PLAY * currentMultiplier
        /\ (state = "IDLE" /\ state' # "IDLE") =>
              /\ state' = "FETCHING_RNG"
              /\ round' = round + 1
              /\ balance' = balance - COST_TO_PLAY * Scale
              /\ crashMultiplier' = MAX_MULTIPLIER * Scale
        /\ round' # round => (state = "IDLE" /\ state' = "FETCHING_RNG")
      ]_vars

\* C5 witness: the second start request was accepted and the balance stands
\* one wager below the balance before it, the draw not yet applied
C5_Witness ==
    /\ lastOp = [op |-> "startRound", res |-> "accepted"]
    /\ round = 2
    /\ state = "FETCHING_RNG"
    /\ balance = startBalance - COST_TO_PLAY * Scale

\* C6: a start request in IDLE with balance < COST_TO_PLAY changes nothing
\* but the tooltip: no transition, no debit, no draw, no round field.
C6_LowBalanceRejected ==
    [][ (StartRequest /\ state = "IDLE" /\ balance < COST_TO_PLAY * Scale) =>
            /\ UNCHANGED <<state, balance, roundTime, currentMultiplier,
                           crashMultiplier, cashoutLocked, crashLocked,
                           endTimer, lastTickStep, history, uiState, calls,
                           round, isQuantum>>
            /\ tooltip' = TRUE ]_vars

\* C6 witness: a start request was rejected for a balance below the wager
C6_Witness ==
    /\ lastOp = [op |-> "startRound", res |-> "low"]
    /\ state = "IDLE"
    /\ balance < COST_TO_PLAY * Scale
    /\ tooltip

\* C7: getUint16 returns an integer in [0, 65535] for every outcome of the
\* remote request and every value of the local generator.
C7_DrawInRange ==
    (probe.fn = "getUint16" /\ probe.out # << >>) =>
        probe.out[1] \in 0..MAX_UINT16

\* C7 witness: a remote response carrying 131071 was returned as 65535
C7_Witness ==
    /\ probe.fn = "getUint16"
    /\ probe.arg.qrng
    /\ probe.arg.resp.kind = "json"
    /\ ReadOutshiftNumber(probe.arg.resp.payload) = <<2 * MAX_UINT16 + 1>>
    /\ probe.out = <<MAX_UINT16>>
    /\ isQuantum

\* C8: the continuation of startRound applies a draw only in FETCHING_RNG and
\* only to the round whose start request issued it: the step that enters
\* RUNNING consumes the suspended call of the latest accepted start request,
\* and a step that consumes a suspended call in any other state (the
\* continuation finding the engine elsewhere) changes neither the state nor
\* crashMultiplier.
C8_NoStaleApply ==
    [][ /\ (state' = "RUNNING" /\ state # "RUNNING") =>
              /\ state = "FETCHING_RNG"
              /\ \E c \in calls :
                    /\ c.epoch = round
                    /\ calls' = calls \ {c}
                    /\ c.phase = "timer" => crashMultiplier' = c.crash
        /\ ((\E c \in calls : calls' = calls \ {c}) /\ state # "FETCHING_RNG") =>
              (state' = state /\ crashMultiplier' = crashMultiplier)
      ]_vars

\* C8 witness: the draw of the second round was applied to the second round
C8_Witness ==
    /\ lastOp = [op |-> "continue", res |-> "applied"]
    /\ round = 2
    /\ state = "RUNNING"
    /\ calls = {}

\* C9: the threshold is stable.  The step that enters RUNNING sets
\* crashMultiplier to the result of a draw, and from then on every step that
\* does not end in IDLE leaves crashMultiplier unchanged.
C9_ThresholdStable ==
    [][ /\ (state \in {"RUNNING", "CASHED_OUT", "CRASHED"} /\ state' # "IDLE") =>
              crashMultiplier' = crashMultiplier
        /\ (state' = "RUNNING" /\ state # "RUNNING") =>
              \E r \in DrawResults(env) : crashMultiplier' = CrashOf(r)
      ]_vars

\* C9 witness: several update ticks into a round the threshold is still the
\* value drawn for it (1.99999x for the draw 30801)
C9_Witness ==
    /\ state = "RUNNING"
    /\ roundTime >= 3
    /\ lastOp = [op |-> "update", res |-> "advance"]
    /\ crashMultiplier = CrashOf(30801)

\* C10: in every state whose lifecycle state is RUNNING, currentMultiplier
\* does not exceed crashMultiplier.
C10_BelowThreshold ==
    state = "RUNNING" => currentMultiplier <= crashMultiplier

\* C11: getCrashMultiplier returns min(25, 0.94 / U) with U = (R + 1) / 65536:
\* the result is the cap exactly when 0.94 * 65536 >= 25 * (R + 1) and
\* otherwise 0.94 * 65536 / (R + 1) cut to 1/Scale; it does not increase when
\* R grows by one; and R = 0 gives exactly MAX_MULTIPLIER.
C11_CrashFormula ==
    (probe.fn = "getCrashMultiplier" /\ probe.out # << >>) =>
        LET R == probe.arg
            out == probe.out[1]
            d == R + 1
            n == 94 * 65536
            a == out \div 1000
            b == out % 1000
        IN  /\ n >= 2500 * d => out = 25 * Scale
            /\ n < 2500 * d =>
                  /\ out < 25 * Scale
                  /\ 0 <= n - a * d
                  /\ n - a * d < d
                  /\ 0 <= 1000 * (n - a * d) - b * d
                  /\ 1000 * (n - a * d) - b * d < d
            /\ R > 0 => out <= CrashOf(R - 1)
            /\ R < MAX_UINT16 => CrashOf(R + 1) <= out
            /\ R = 0 => out = MAX_MULTIPLIER * Scale

C11_Witness ==
    /\ probe.fn = "getCrashMultiplier"
    /\ probe.arg = 0
    /\ probe.out = <<MAX_MULTIPLIER * Scale>>

\* the assignments to Game.state: from, to, and the operation that makes it
Transitions ==
    {[from |-> "IDLE", to |-> "FETCHING_RNG", by |-> "startRound"],
     [from |-> "FETCHING_RNG", to |-> "RUNNING", by |-> "continue"],
     [from |-> "RUNNING", to |-> "CASHED_OUT", by |-> "cashOut"],
     [from |-> "RUNNING", to |-> "CRASHED", by |-> "update"],
     [from |-> "CASHED_OUT", to |-> "IDLE", by |-> "update"],
     [from |-> "CRASHED", to |-> "IDLE", by |-> "update"]}

\* C12: the lifecycle state starts at IDLE and every change of it follows
\* one of the six transitions IDLE -> FETCHING_RNG, FETCHING_RNG -> RUNNING,
\* RUNNING -> CASHED_OUT, RUNNING -> CRASHED, CASHED_OUT -> IDLE and
\* CRASHED -> IDLE, each made by its own operation; an update whose dt covers
\* the whole end delay makes RUNNING -> CRASHED and CRASHED -> IDLE one after
\* the other inside the same call.
C12_Lifecycle ==
    /\ state = "IDLE"
    /\ [][state' # state =>
            \/ \E t \in Transitions :
                 /\ t.from = state
                 /\ t.to = state'
                 /\ t.by = lastOp'.op
            \/ \E t1, t2 \in Transitions :
                 /\ t1.from = state
                 /\ t1.to = t2.from
                 /\ t2.to = state'
                 /\ t1.by = "update"
                 /\ t2.by = "update"
                 /\ lastOp' = [op |-> "update", res |-> "crash+reset"]
                 /\ Len(history') = Min(HISTORY_MAX, Len(history) + 1)]_vars

C12_Witness ==
    /\ state = "IDLE"
    /\ lastOp = [op |-> "update", res |-> "reset"]
    /\ Len(history) >= 1

\* a run of many short rounds
InitHistory ==
    /\ InitGame
    /\ isQuantum = FALSE
    /\ useQrng \in BOOLEAN
    /\ env = "long"
    /\ probe = NoProbe

SpecHistory == InitHistory /\ [][Next]_vars

(***************************************************************************)
(* Scheduling.  The ticker calls update on every frame, wall-clock time    *)
(* passes, an armed timer fires, and a remote request is answered or fails.*)
(***************************************************************************)
\* the tasks of a player who never asks for a cash-out
NextNoCashOut ==
    \/ StartRequest
    \/ FetchDone
    \/ TimerFire
    \/ Tock
    \/ Tick
    \/ TooltipHide

SpecNoCashOut ==
    /\ Init
    /\ [][NextNoCashOut]_vars
    /\ WF_vars(Tick)
    /\ WF_vars(Tock)
    /\ WF_vars(TimerFire)
    /\ WF_vars(FetchDone)

\* The same scheduling with cash-out requests, in the environment "offline".
\* Its balance stays at or above COST_TO_PLAY within MaxRounds, so that the
\* tooltip is never shown and its timer is never armed.
InitFair == Init /\ env = "offline"

NextFair ==
    \/ StartRequest
    \/ FetchDone
    \/ TimerFire
    \/ Tock
    \/ CashOutRequest
    \/ Tick

SpecFair ==
    /\ InitFair
    /\ [][NextFair]_vars
    /\ WF_vars(Tick)
    /\ WF_vars(Tock)
    /\ WF_vars(TimerFire)
    /\ WF_vars(FetchDone)

\* C13: without cash-out requests every round that enters RUNNING settles as
\* a crash under the update ticks: the threshold never exceeds the cap, a
\* RUNNING round has not yet run for the time at which the curve reaches the
\* cap, and RUNNING leads to an update that crashes the round with the
\* balance at its value after the debit (nothing is paid).
C13_CrashesEventually ==
    /\ [](crashMultiplier <= MAX_MULTIPLIER * Scale)
    /\ [](state = "RUNNING" => roundTime <= Len(ExpTable))
    /\ (state = "RUNNING") ~>
          (/\ lastOp.op = "update"
           /\ lastOp.res \in {"crash", "crash+reset"}
           /\ lastOp.res = "crash" => state = "CRASHED"
           /\ balance = startBalance - COST_TO_PLAY * Scale)

\* draw 0: the round crashes when the multiplier reaches 25, balance 90
C13_Witness ==
    /\ state = "CRASHED"
    /\ crashMultiplier = MAX_MULTIPLIER * Scale
    /\ currentMultiplier = MAX_MULTIPLIER * Scale
    /\ balance = (START_BALANCE - COST_TO_PLAY) * Scale
    /\ Len(history) = 1

\* C14: with a transport that fails on every call (network error, non-success
\* status, body that is not JSON or carries no parsable value) isQuantum is
\* false throughout, the threshold of every round is the one of a local
\* value, an accepted start leads to RUNNING and RUNNING leads to the
\* settlement of the round.
C14_TransportFails ==
    /\ [](env = "offline" =>
            /\ ~isQuantum
            /\ state \in {"RUNNING", "CASHED_OUT", "CRASHED"} =>
                  \E f \in FallbackValues(env) : crashMultiplier = CrashOf(f))
    /\ (env = "offline" /\ state = "FETCHING_RNG") ~> (state = "RUNNING")
    /\ (env = "offline" /\ state = "RUNNING") ~>
          (\/ state \in Settled
           \/ lastOp = [op |-> "update", res |-> "crash+reset"])

\* a round of the failing transport settled after a remote request was made
C14_Witness ==
    /\ env = "offline"
    /\ useQrng
    /\ state \in Settled
    /\ crashMultiplier = CrashOf(30801)
    /\ ~isQuantum

\* C15: after a completed draw isQuantum is true exactly when remote usage is
\* enabled and the response was a JSON payload whose first record has a
\* field that parses; the returned value is then the clamped value of such a
\* field, and in every other case (remote disabled, request failed, nothing
\* parsable) it is the value of the local generator.  The flag left by an
\* earlier draw has no influence.
C15_QuantumFlag ==
    (probe.fn = "getUint16" /\ probe.out # << >>) =>
        LET a == probe.arg
            records == IF a.resp.kind = "json"
                       THEN a.resp.payload.random_numbers ELSE << >>
            parsed == IF Len(records) = 0 THEN {}
                      ELSE {records[1][f][1] :
                              f \in {h \in FieldNames : records[1][h] # << >>}}
            remote == a.qrng /\ parsed # {}
        IN  /\ isQuantum <=> remote
            /\ remote => probe.out[1] \in {ClampUint16(v) : v \in parsed}
            /\ ~remote => probe.out[1] = a.fallback

\* a JSON payload whose record has no field that parses: the flag is false
C15_Witness ==
    /\ probe.fn = "getUint16"
    /\ probe.out # << >>
    /\ probe.arg.qrng
    /\ probe.arg.resp.kind = "json"
    /\ Len(probe.arg.resp.payload.random_numbers) = 1
    /\ ~isQuantum

\* C16: RUNNING is never entered earlier than the minimum charge time after
\* the accepted start request: the step that enters RUNNING consumes a
\* suspended startRound at least MIN_CHARGE old.  When the draw resolves
\* earlier the engine stays in FETCHING_RNG with the timer armed; when it
\* resolves at MIN_CHARGE or later the same step enters RUNNING.
C16_MinimumCharge ==
    [][ /\ (state' = "RUNNING" /\ state # "RUNNING") =>
              \E c \in calls : c \notin calls' /\ c.elapsed >= MIN_CHARGE
        /\ \A c \in calls :
              (/\ c.phase = "fetch"
               /\ \A c2 \in calls' : c2.phase # "fetch") =>
                 IF c.elapsed < MIN_CHARGE
                 THEN /\ state' = "FETCHING_RNG"
                      /\ \E c2 \in calls' :
                            /\ c2.phase = "timer"
                            /\ c2.epoch = c.epoch
                            /\ c2.elapsed = c.elapsed
                 ELSE /\ state' = "RUNNING"
                      /\ calls' = calls \ {c}
      ]_vars

\* the draw resolved early and the engine waits in FETCHING_RNG
C16_Witness ==
    /\ state = "FETCHING_RNG"
    /\ useQrng
    /\ lastOp = [op |-> "fetchDone", res |-> "wait"]
    /\ \E c \in calls : c.phase = "timer" /\ c.elapsed = MIN_CHARGE - 1

\* C17: a settled round is released by the update ticks alone.  While the
\* state is CASHED_OUT or CRASHED the end timer is positive and at most
\* END_DELAY; a step then either keeps the state, with the end timer not
\* increased and no start request accepted (round and balance unchanged), or
\* is the update whose dt brings the end timer to zero or below and returns
\* to IDLE; and every settled state leads to IDLE.
C17_Released ==
    /\ [](state \in Settled => (0 < endTimer /\ endTimer <= END_DELAY))
    /\ [][(state \in Settled) =>
            \/ /\ state' = state
               /\ endTimer' <= endTimer
               /\ endTimer' > 0
               /\ round' = round
               /\ balance' = balance
            \/ /\ state' = "IDLE"
               /\ lastOp'.op = "update"
               /\ \E dt \in 1..MaxDt : endTimer - dt <= 0
               /\ endTimer' = 0
         ]_vars
    /\ (state \in Settled) ~> (state = "IDLE")

\* a start request was ignored while the settled round was on display
C17_Witness ==
    /\ state = "CASHED_OUT"
    /\ endTimer = END_DELAY - 1
    /\ lastOp = [op |-> "startRound", res |-> "ignored"]

\* C18: the live multiplier is always within [1, MAX_MULTIPLIER]; an accepted
\* start request and the entry into RUNNING leave it at 1 with roundTime 0;
\* and a step taken in RUNNING never decreases it, except for the reset to 1
\* of an update that also releases the round.
C18_MultiplierMonotone ==
    [][ /\ currentMultiplier' >= 1 * Scale
        /\ currentMultiplier' <= MAX_MULTIPLIER * Scale
        /\ (state' \in {"FETCHING_RNG", "RUNNING"} /\ state' # state) =>
              (currentMultiplier' = 1 * Scale /\ roundTime' = 0)
        /\ (state = "RUNNING" /\ state' # "IDLE") =>
              /\ currentMultiplier' >= currentMultiplier
              /\ roundTime' >= roundTime
              /\ roundTime' > roundTime => lastOp'.op = "update"
        /\ (state = "RUNNING" /\ state' = "IDLE") =>
              currentMultiplier' = 1 * Scale
      ]_vars

\* a RUNNING round whose multiplier has grown over several ticks
C18_Witness ==
    /\ state = "RUNNING"
    /\ roundTime >= 3
    /\ currentMultiplier > ExpTable[roundTime]
    /\ currentMultiplier = MultiplierAt(roundTime)

\* C19: a cash-out request processed in IDLE, FETCHING_RNG, CASHED_OUT or
\* CRASHED changes none of state, balance, currentMultiplier,
\* crashMultiplier, roundTime, endTimer, the lock flags and the history (nor
\* any other field of the engine).
C19_CashOutNoOp ==
    [][(CashOutRequest /\ state # "RUNNING") =>
          UNCHANGED <<state, balance, currentMultiplier, crashMultiplier,
                      roundTime, endTimer, cashoutLocked, crashLocked,
                      lastTickStep, history, isQuantum, uiState, tooltip,
                      calls, round>>
      ]_vars

\* a cash-out request was ignored while the draw was in flight
C19_Witness ==
    /\ state = "FETCHING_RNG"
    /\ lastOp = [op |-> "cashOut", res |-> "ignored"]
    /\ balance = (START_BALANCE - COST_TO_PLAY) * Scale

\* C20: roundTime and currentMultiplier change only in RUNNING.  A step taken
\* in IDLE, FETCHING_RNG, CASHED_OUT or CRASHED leaves both unchanged, except
\* for the update that releases a settled round and resets them to 0 and 1;
\* and roundTime only ever grows by the dt of an update taken in RUNNING.
C20_TimeOnlyWhileRunning ==
    [][ /\ (state # "RUNNING" /\
             (roundTime' # roundTime \/ currentMultiplier' # currentMultiplier)) =>
              /\ state \in Settled
              /\ state' = "IDLE"
              /\ lastOp'.op = "update"
              /\ roundTime' = 0
              /\ currentMultiplier' = 1 * Scale
        /\ roundTime' > roundTime =>
              /\ state = "RUNNING"
              /\ lastOp'.op = "update"
              /\ roundTime' - roundTime \in 1..MaxDt
      ]_vars

\* an update tick during the display of a paid round left roundTime alone
C20_Witness ==
    /\ state = "CASHED_OUT"
    /\ lastOp = [op |-> "update", res |-> "countdown"]
    /\ roundTime >= 2
    /\ currentMultiplier = MultiplierAt(roundTime)

\* C21: readOutshiftNumber returns null when the payload has no record;
\* otherwise it returns the value of the first of the fields decimal,
\* hexadecimal, binary, octal (radix 10, 16, 2, 8) whose text, decoded per
\* the envelope encoding (raw: trimmed; anything else, a missing encoding
\* included: base64-decoded, then trimmed), parses; absent, empty,
\* undecodable and unparsable fields are skipped, and null is returned when
\* no field parses.  The last conjuncts give the values of known texts.
C21_FieldOrder ==
    (probe.fn = "readOutshiftNumber" /\ probe.out # << >>) =>
        LET p == probe.arg
            res == probe.out[1]
            enc == IF p.encoding = "raw" THEN "raw" ELSE "base64"
            order == <<"decimal", "hexadecimal", "binary", "octal">>
            radix == <<10, 16, 2, 8>>
            e == p.random_numbers[1]
            parsed(i) ==
                LET d == DecodeValue(e[order[i]], enc)
                IN  IF d.ok THEN ParseInt(d.text, radix[i]) ELSE << >>
            only(f, t) == e = [g \in FieldNames |-> IF g = f THEN t ELSE << >>]
        IN  /\ Len(p.random_numbers) = 0 => res = << >>
            /\ Len(p.random_numbers) = 1 =>
                  /\ (\A i \in 1..4 : parsed(i) = << >>) => res = << >>
                  /\ \A i \in 1..4 :
                        (parsed(i) # << >> /\ \A j \in 1..(i - 1) : parsed(j) = << >>)
                            => res = parsed(i)
                  /\ (enc = "raw" /\ only("decimal", <<"4", "2">>)) => res = <<42>>
                  /\ (enc = "raw" /\ only("octal", <<"4", "2">>)) => res = <<34>>
                  /\ (enc = "raw" /\ only("binary", <<" ", "1", "0", "\n">>))
                        => res = <<2>>
                  /\ (enc = "raw" /\ only("hexadecimal", <<"0", "x", "1", "F">>))
                        => res = <<31>>
                  /\ (enc = "raw" /\ only("decimal", <<"-", "7">>)) => res = <<-7>>
                  /\ (enc = "raw" /\ only("decimal", <<"A">>)) => res = << >>
                  /\ (enc = "base64" /\ only("decimal", <<"M", "T", "A", "=">>))
                        => res = <<10>>
                  /\ (enc = "base64" /\ only("hexadecimal", <<"N", "D", "I", "=">>))
                        => res = <<66>>
                  /\ (enc = "base64" /\ only("decimal", <<"A">>)) => res = << >>
                  /\ (enc = "base64" /\ only("decimal", <<"-", "7">>)) => res = << >>
                  /\ (enc = "base64" /\ only("decimal", <<"I", "C", "A", "=">>))
                        => res = << >>
                  /\ (enc = "base64" /\ only("decimal", <<"4", "2">>)) => res = << >>

\* no encoding in the envelope, a decimal field atob rejects and a
\* hexadecimal field that is the base64 text of "42": the result is 0x42
C21_Witness ==
    /\ probe.fn = "readOutshiftNumber"
    /\ probe.arg.encoding = "missing"
    /\ Len(probe.arg.random_numbers) = 1
    /\ probe.arg.random_numbers[1].decimal = <<"A">>
    /\ probe.arg.random_numbers[1].hexadecimal = <<"N", "D", "I", "=">>
    /\ probe.out = << <<66>> >>

\* C22: clampUint16 returns an integer in [0, 65535]: 0 for NaN, 0 for a
\* negative value, value mod 65536 for an integer above 65535 (0 for 65536),
\* and for a value in [0, 65535] the nearest integer, which is the value
\* itself when it is an integer.  A value above 65535 that is no integer is
\* rounded to the nearest integer before the test of the range.
C22_Clamp ==
    (probe.fn = "clampUint16" /\ probe.out # << >>) =>
        LET x == probe.arg
            t == x.tenths
            out == probe.out[1]
        IN  /\ out \in 0..65535
            /\ x.nan => out = 0
            /\ (~x.nan /\ t < 0) => out = 0
            /\ (~x.nan /\ t > 655350 /\ t % 10 = 0) => out = (t \div 10) % 65536
            /\ (~x.nan /\ t = 655360) => out = 0
            /\ (~x.nan /\ t >= 0 /\ t <= 655350) =>
                  /\ 10 * out - t \in -4..5
                  /\ t % 10 = 0 => 10 * out = t
            /\ (~x.nan /\ t > 655350 /\ t % 10 # 0) =>
                  \E r \in 65535..131073 :
                      /\ 10 * r - t \in -4..5
                      /\ out = IF r > 65535 THEN r % 65536 ELSE r

\* 131071 wraps to 65535
C22_Witness ==
    /\ probe.fn = "clampUint16"
    /\ probe.arg = Num(1310710)
    /\ probe.out = <<65535>>

\* C23: the balance is never negative.
C23_BalanceNonNegative == balance >= 0

\* ten rounds lost in a row: the balance is 0 and the round is over
C23_Witness ==
    /\ balance = 0
    /\ state = "CRASHED"
    /\ round = START_BALANCE \div COST_TO_PLAY

\* C24: at most one startRound is suspended at any time, one is suspended
\* exactly while the state is FETCHING_RNG, and no continuation has ever
\* found the engine outside FETCHING_RNG (the stale return is never taken).
C24_SingleFetch ==
    /\ Cardinality(calls) <= 1
    /\ calls # {} <=> state = "FETCHING_RNG"
    /\ \A c \in calls : c.epoch = round
    /\ lastOp.res # "stale"

\* a start request, a cash-out request and update ticks have been processed
\* while the remote request was in flight for longer than the charge time
C24_Witness ==
    /\ state = "FETCHING_RNG"
    /\ lastOp = [op |-> "cashOut", res |-> "ignored"]
    /\ \E c \in calls : c.phase = "fetch" /\ c.elapsed > MIN_CHARGE

\* C25: a start request processed in FETCHING_RNG, RUNNING, CASHED_OUT or
\* CRASHED changes nothing: no debit, no second draw, no reset of roundTime,
\* currentMultiplier, crashMultiplier or the lock flags, nor of any other
\* field of the engine.
C25_StartNoOp ==
    [][(StartRequest /\ state # "IDLE") =>
          UNCHANGED <<state, balance, currentMultiplier, crashMultiplier,
                      roundTime, endTimer, cashoutLocked, crashLocked,
                      lastTickStep, history, isQuantum, uiState, tooltip,
                      calls, round, startBalance>>
      ]_vars

\* a start request was ignored in the middle of a RUNNING round
C25_Witness ==
    /\ state = "RUNNING"
    /\ roundTime >= 2
    /\ lastOp = [op |-> "startRound", res |-> "ignored"]

\* C26: the payout of a cash-out is at least COST_TO_PLAY and at most
\* COST_TO_PLAY * MAX_MULTIPLIER, and the net change of the balance over a
\* round is -COST_TO_PLAY when it crashed and within [0, 240] when it was
\* cashed out.
C26_PayoutRange ==
    LET net == balance - startBalance
        cashed == net >= 0 /\ net <= COST_TO_PLAY * (MAX_MULTIPLIER - 1) * Scale
        lost == net = -COST_TO_PLAY * Scale
    IN  /\ state = "CASHED_OUT" =>
              /\ cashed
              /\ net + COST_TO_PLAY * Scale >= COST_TO_PLAY * Scale
              /\ net + COST_TO_PLAY * Scale <= COST_TO_PLAY * MAX_MULTIPLIER * Scale
        /\ state = "CRASHED" => lost
        /\ (state = "IDLE" /\ round >= 1) => (cashed \/ lost)

\* a cash-out above 24x
C26_Witness ==
    /\ state = "CASHED_OUT"
    /\ balance - startBalance >= 230 * Scale

\* C27: between the tasks of the event loop the UI's copy of the state
\* equals the engine's state, so that a click on the play button is routed
\* to cashOut exactly when the engine is RUNNING and to startRound exactly
\* when it is IDLE.
C27_UiStateInSync ==
    /\ uiState = state
    /\ ClickRoute(uiState) = "cashOut" <=> state = "RUNNING"
    /\ ClickRoute(uiState) = "startRound" <=> state = "IDLE"

\* the UI is back at IDLE after a round
C27_Witness ==
    /\ uiState = "IDLE"
    /\ state = "IDLE"
    /\ round >= 1
    /\ calls = {}
    /\ ClickRoute(uiState) = "startRound"

\* C29: whenever the state is IDLE the round fields hold their initial
\* values.
C29_IdleIsClean ==
    state = "IDLE" =>
        /\ currentMultiplier = 1 * Scale
        /\ roundTime = 0
        /\ crashMultiplier = MAX_MULTIPLIER * Scale
        /\ endTimer = 0
        /\ ~cashoutLocked
        /\ ~crashLocked

\* IDLE after a round whose threshold was not the cap
C29_Witness ==
    /\ state = "IDLE"
    /\ Len(history) >= 1
    /\ history[1].value < MAX_MULTIPLIER * Scale
    /\ crashMultiplier = MAX_MULTIPLIER * Scale

\* C30: cashoutLocked is true exactly in CASHED_OUT, crashLocked exactly in
\* CRASHED, and never both; in RUNNING neither flag is set, so that the
\* guards of cashOut and crash accept whenever the state is RUNNING.
C30_LocksMatchState ==
    /\ cashoutLocked <=> state = "CASHED_OUT"
    /\ crashLocked <=> state = "CRASHED"
    /\ ~(cashoutLocked /\ crashLocked)
    /\ state = "RUNNING" => (CashOutAccepts(Fields) /\ CrashAccepts(Fields))

C30_Witness ==
    /\ state = "CASHED_OUT"
    /\ cashoutLocked
    /\ ~crashLocked
    /\ endTimer = END_DELAY

\* C28: the history never holds more than 12 entries; a step that settles
\* a round (it leaves RUNNING, by cash-out or by crash) puts one entry in
\* front whose value is min(MAX_MULTIPLIER, crashMultiplier) of the round,
\* keeps the earlier entries in their order behind it and drops the oldest
\* when there were 12; any other step leaves the history unchanged.
C28_History ==
    [][ /\ Len(history') <= 12
        /\ (state = "RUNNING" /\ state' # "RUNNING") =>
              /\ Len(history') = Min(12, Len(history) + 1)
              /\ history'[1].value = Min(MAX_MULTIPLIER * Scale, crashMultiplier)
              /\ \A i \in 2..Len(history') : history'[i] = history[i - 1]
        /\ ~(state = "RUNNING" /\ state' # "RUNNING") => history' = history
      ]_vars

\* the thirteenth round was cashed out at 1.00x: its threshold is in front,
\* the entry of the second round is last, the one of the first is gone
C28_Witness ==
    /\ state = "CASHED_OUT"
    /\ round = 13
    /\ Len(history) = 12
    /\ history[1].value = CrashOf(MAX_UINT16)
    /\ history[2].value = CrashOf(61603)
    /\ history[12].value = CrashOf(61603)
    /\ currentMultiplier = 1 * Scale

====
